---- MODULE Spec2Model ----
(***************************************************************************)
(* Model of relay-assignment.py: the DisjointSet class and the             *)
(* optimal_assignment search (grouping, cost model, candidate enumeration, *)
(* masked assignment solve, result selection).                             *)
(*                                                                         *)
(* Distances are counted in half miles, so that int(pace * distance)       *)
(* truncates; a Python dict is a function together with the insertion      *)
(* order of its keys where that order is read.                             *)
(***************************************************************************)
EXTENDS Integers, Sequences, FiniteSets, TLC

\* ------------------------------------------------------------------ bounds

\* Runner names a run may use, in dict (insertion) order.
RunnerNames == <<"A", "B", "C", "D">>

\* Paces are drawn from 1..MaxPace.
MaxPace == 2

\* A constraint-group list holds at most MaxGroups groups.
MaxGroups == 2

\* ---------------------------------------------------------------- helpers

Range(s) == {s[x] : x \in DOMAIN s}

Put(f, key, v) == [x \in (DOMAIN f) \cup {key} |-> IF x = key THEN v ELSE f[x]]

Del(f, key) == [x \in (DOMAIN f) \ {key} |-> f[x]]

EmptyDict == [x \in {} |-> x]

\* ------------------------------------------------------------- DisjointSet

VARIABLES
    _leader,   \* DisjointSet._leader: element -> leader
    _group,    \* DisjointSet._group: leader -> set of members
    exc,       \* the exception the last call raised, or "none"
    call       \* the last DisjointSet call of the free-standing set: <<op, a, b>>

\* DisjointSet.__init__
DisjointSet == [leader |-> EmptyDict, group |-> EmptyDict]

\* DisjointSet.add: a no-op when elem is already a key of _leader.
add(self, elem) ==
    IF elem \notin DOMAIN self.leader
    THEN [leader |-> Put(self.leader, elem, elem),
          group  |-> Put(self.group, elem, {elem})]
    ELSE self

\* A merge that registers the elements it does not know instead of failing.
merge_registering(self, a, b) ==
    LET known == add(add(self, a), b)
        la == known.leader[a]
        lb == known.leader[b]
    IN  IF la \notin DOMAIN known.group \/ lb \notin DOMAIN known.group
        THEN [ds |-> known, exc |-> "KeyError"]
        ELSE [ds |-> [leader |-> [x \in DOMAIN known.leader |->
                                     IF x \in known.group[lb] THEN la ELSE known.leader[x]],
                      group  |-> Del([known.group EXCEPT ![la] = @ \cup known.group[lb]], lb)],
              exc |-> "none"]

\* DisjointSet.merge.  The result is the set after the call and the exception
\* raised ("none" when the call returns).  ga and gb are the same object when
\* la = lb, so ga |= gb changes nothing and del removes the only group.
merge(self, a, b) ==
    IF a \notin DOMAIN self.leader \/ b \notin DOMAIN self.leader
    THEN [ds |-> self, exc |-> "KeyError"]                    \* lines 20-21
    ELSE LET la0 == self.leader[a]
             lb0 == self.leader[b]
         IN  IF la0 \notin DOMAIN self.group \/ lb0 \notin DOMAIN self.group
             THEN [ds |-> self, exc |-> "KeyError"]           \* lines 24-25
             ELSE LET swap == Cardinality(self.group[la0]) < Cardinality(self.group[lb0])
                      la == IF swap THEN lb0 ELSE la0
                      lb == IF swap THEN la0 ELSE lb0
                      ga == self.group[la] \cup self.group[lb]  \* ga |= gb
                      gb == self.group[lb]
                      g1 == Del([self.group EXCEPT ![la] = ga], lb)
                      l1 == [x \in DOMAIN self.leader |->
                                IF x \in gb THEN la ELSE self.leader[x]]
                  IN  [ds |-> [leader |-> l1, group |-> g1], exc |-> "none"]

\* DisjointSet.groups: the groups of the elements that lead themselves, in the
\* insertion order of _leader (order is the sequence of keys as inserted).
\* KeyError when such an element has lost its entry in _group.
groups_of(self, order) ==
    LET leaders == SelectSeq(order, LAMBDA e : e \in DOMAIN self.leader /\ self.leader[e] = e)
    IN  IF \E x \in Range(leaders) : x \notin DOMAIN self.group
        THEN [groups |-> <<>>, exc |-> "KeyError"]
        ELSE [groups |-> [x \in DOMAIN leaders |-> self.group[leaders[x]]], exc |-> "none"]

\* ------------------------------------------------------ optimal_assignment

VARIABLES
    data,                  \* the loaded configuration: groups, runners, race
    pc,                    \* position in optimal_assignment
    i,                     \* index the current loop is at (runner, merge call, possibility)
    groups,                \* the local `groups` after line 60
    all_group_assignments,
    symbolic_C, big, C, inf,
    best, best_cost, cost,
    result                 \* the returned value, once pc = "done"

vars == <<_leader, _group, exc, call, data, pc, i, groups,
          all_group_assignments, symbolic_C, big, C, inf, best, best_cost,
          cost, result>>

dsVars == <<_leader, _group>>
searchVars == <<groups, all_group_assignments, symbolic_C, big, C, inf, best,
                best_cost, cost, result>>

\* Python's None; the lists the function returns are never empty.
None == <<>>

ds == [leader |-> _leader, group |-> _group]

N == Len(data.runners)

names == [r \in 1..N |-> data.runners[r].name]

SumSeq(s) ==
    LET RECURSIVE S(_)
        S(n) == IF n = 0 THEN 0 ELSE s[n] + S(n - 1)
    IN  S(Len(s))

\* The permutations of 1..n, for every n up to the number of runner names.
PermsOf ==
    [n \in 0..Len(RunnerNames) |->
        {p \in [1..n -> 1..n] : \A x, y \in 1..n : (x # y) => (p[x] # p[y])}]

Perms(n) == PermsOf[n]

\* list.index(v): 0-based position of the first v; -1 stands for ValueError.
index(s, v) ==
    IF v \notin Range(s) THEN -1
    ELSE (CHOOSE x \in DOMAIN s : s[x] = v /\ \A y \in 1..(x - 1) : s[y] # v) - 1

\* rank(r, i), with column c = i + 1.
rank(r, c) == index(data.runners[r].ranking, c)

\* time(r, i) = int(pace * sum(leg)); a leg's segments are in half miles.
time(r, c) == (data.runners[r].pace * SumSeq(data.race.legs[c])) \div 2

\* Lines 57-59 as the sequence of merge calls they make: for every group, in
\* order, merge(group[0], elem) for every elem of group[1:].
RECURSIVE MergeCallsFrom(_, _)
MergeCallsFrom(gs, g) ==
    IF g > Len(gs) THEN <<>>
    ELSE [e \in 1..(IF Len(gs[g]) = 0 THEN 0 ELSE Len(gs[g]) - 1) |-> <<gs[g][1], gs[g][e + 1]>>]
         \o MergeCallsFrom(gs, g + 1)

MergeCalls == MergeCallsFrom(data.groups, 1)

\* Lines 66-70: every tuple of race-group indices (1-based here), one per merged
\* group; each round prepends the new index, which varies fastest.
RECURSIVE AllGroupAssignments(_, _)
AllGroupAssignments(ng, nr) ==
    IF ng = 0 THEN << <<>> >>
    ELSE LET prev == AllGroupAssignments(ng - 1, nr)
         IN  [x \in 1..(Len(prev) * nr) |->
                 << ((x - 1) % nr) + 1 >> \o prev[((x - 1) \div nr) + 1]]

\* Lines 87-91.  ValueError when a ranking lacks one of the legs 1..N.
RankingMissing == \E r \in 1..N, c \in 1..N : rank(r, c) = -1

SymbolicC == [r \in 1..N |-> [c \in 1..N |-> <<rank(r, c), time(r, c)>>]]

Max(S) == CHOOSE x \in S : \A y \in S : y <= x

RECURSIVE Pow10(_)
Pow10(e) == IF e = 0 THEN 1 ELSE 10 * Pow10(e - 1)

\* The exponent rounded down, as np.floor would.
FloorLog10(x) == CHOOSE e \in 0..9 : Pow10(e) <= x /\ (e = 9 \/ x < Pow10(e + 1))

\* np.ceil(np.log10(x)) for an integer x >= 1.  log10 of an exact power of ten
\* is that exponent exactly, and below 10^15 no other integer rounds to one.
CeilLog10(x) == CHOOSE e \in 0..9 : Pow10(e) >= x /\ (e = 0 \/ Pow10(e - 1) < x)

\* Line 95.  log10(0) is -inf and 10 ** -inf is 0.0, so big is 0 then.
Big(x) == IF x = 0 THEN 0 ELSE Pow10(CeilLog10(x))

MaxTime(sym) == Max({sym[r][c][2] : r \in 1..N, c \in 1..N})

\* Lines 97-101.  The entries are int64 in the code; within the paces and legs
\* drawn here they stay far below 2^63.
Encode(sym, b) == [r \in 1..N |-> [c \in 1..N |-> sym[r][c][1] * b + sym[r][c][2]]]

\* Line 105.
Inf(b) == 2 * N * N * b

\* The masking with the race-group's legs read as 0-based indices.
MaskedZeroBased(possibility) ==
    [r \in 1..N |-> [c \in 1..N |->
        IF \E ig \in DOMAIN groups :
              /\ names[r] \in groups[ig]
              /\ (c - 1) \notin data.race.groups[possibility[ig]]
        THEN inf ELSE C[r][c]]]

\* Lines 109-116: the cost matrix with the legs outside the chosen race-group
\* set to inf for every member of every merged group.
Masked(possibility) ==
    [r \in 1..N |-> [c \in 1..N |->
        IF \E ig \in DOMAIN groups :
              /\ names[r] \in groups[ig]
              /\ c \notin data.race.groups[possibility[ig]]
        THEN inf ELSE C[r][c]]]

Total(M, col_ind) ==
    LET RECURSIVE S(_)
        S(r) == IF r = 0 THEN 0 ELSE M[r][col_ind[r]] + S(r - 1)
    IN  S(N)

\* Line 117: linear_sum_assignment returns a minimum-cost perfect matching;
\* which one among several of equal cost is left to the solver.
linear_sum_assignment(M) ==
    LET total == [p \in Perms(N) |-> Total(M, p)]
        least == CHOOSE t \in Range(total) : \A u \in Range(total) : t <= u
    IN  {p \in Perms(N) : total[p] = least}

\* A comparison that also lets a candidate of equal total replace the best.
ReplacesOnTie(total, bound, so_far) == total < bound /\ total <= so_far

\* Line 119: whether a candidate's total replaces the best so far.
Replaces(total, bound, so_far) == total < bound /\ total < so_far

\* The list built over range(N - 1): the last leg is left out.
BestListShort(col_ind) ==
    [c \in 1..(N - 1) |-> names[CHOOSE r \in 1..N : col_ind[r] = c]]

\* Line 121: the runner names by leg.
BestList(col_ind) ==
    [c \in 1..N |-> names[CHOOSE r \in 1..N : col_ind[r] = c]]

\* ------------------------------------------------------------------ inputs

\* A leg is a sequence of segment distances in half miles.
LegShapes == {<<1>>, <<2>>, <<2, 3>>}

\* Up to two runners and legs, every combination of paces, rankings and leg
\* shapes is drawn; above that, the paces and legs alternate and a team of
\* four ranks the legs in one of two orders.
Paces(n) ==
    IF n <= 2 THEN [1..n -> 1..MaxPace]
    ELSE {[r \in 1..n |-> 1 + (r % 2)]}

Legs(l) ==
    IF l <= 2 THEN [1..l -> LegShapes]
    ELSE {[c \in 1..l |-> IF c % 2 = 1 THEN <<2, 3>> ELSE <<1>>]}

Rankings(n, l) ==
    IF l <= 3 THEN [1..n -> Perms(l)]
    ELSE [1..n -> {[c \in 1..l |-> c], [c \in 1..l |-> l + 1 - c]}]

\* Constraint groups over the first n runners, in a fixed order: every pair,
\* then the whole team when it has more than two runners.
GroupPool(n) ==
    LET pair(x) == <<((x - 1) \div n) + 1, ((x - 1) % n) + 1>>
        pairs == SelectSeq([x \in 1..(n * n) |-> pair(x)], LAMBDA q : q[1] < q[2])
    IN  [x \in 1..Len(pairs) |-> <<RunnerNames[pairs[x][1]], RunnerNames[pairs[x][2]]>>]
        \o (IF n > 2 THEN << SubSeq(RunnerNames, 1, n) >> ELSE <<>>)

\* The constraint-group lists: at most MaxGroups groups of the pool, in pool
\* order.
GroupLists(n) ==
    LET pool == GroupPool(n)
        picks == {S \in SUBSET (1..Len(pool)) : Cardinality(S) <= MaxGroups}
    IN  {SelectSeq([x \in 1..Len(pool) |-> IF x \in S THEN pool[x] ELSE <<>>],
                   LAMBDA g : g # <<>>) : S \in picks}

\* The race-group lists: none; the first e legs; or the first e legs together
\* with the legs from e or e + 1 on.
RaceGroupLists(l) ==
    {<<>>} \cup {<<1..e>> : e \in 1..l}
           \cup {<<1..z[1], z[2]..l>> : z \in {y \in (1..(l - 1)) \X (1..l) : y[2] \in {y[1], y[1] + 1}}}

Configs(n, l) ==
    {[groups  |-> g,
      runners |-> [r \in 1..n |-> [name |-> RunnerNames[r], pace |-> pa[r], ranking |-> rk[r]]],
      race    |-> [legs |-> lg, groups |-> rg]] :
        g \in GroupLists(n),
        pa \in Paces(n),
        rk \in Rankings(n, l),
        lg \in Legs(l),
        rg \in RaceGroupLists(l)}

\* Runner and leg counts: every mix of one and two, equal counts above.
Sizes ==
    {z \in (1..Len(RunnerNames)) \X (1..Len(RunnerNames)) :
        z[1] = z[2] \/ (z[1] <= 2 /\ z[2] <= 2)}

\* ----------------------------------------------------------------- actions

Idle ==
    /\ groups = <<>> /\ all_group_assignments = <<>> /\ symbolic_C = <<>>
    /\ big = 0 /\ C = <<>> /\ inf = 0 /\ best = None /\ best_cost = 0
    /\ cost = 0 /\ result = None /\ i = 1 /\ exc = "none"
    /\ call = <<"__init__", "", "">>

\* main() calls optimal_assignment(groups, runners, race) on a loaded config.
Init ==
    /\ \E z \in Sizes : data \in Configs(z[1], z[2])
    /\ _leader = DisjointSet.leader /\ _group = DisjointSet.group
    /\ pc = "add"
    /\ Idle

Raise(e) ==
    /\ exc' = e
    /\ pc' = "done"

\* Lines 55-56.
AddRunner ==
    /\ pc = "add"
    /\ LET d == add(ds, names[i])
       IN  /\ _leader' = d.leader
           /\ _group' = d.group
    /\ IF i < N THEN i' = i + 1 /\ pc' = pc
                ELSE i' = 1 /\ pc' = "merge"
    /\ UNCHANGED <<exc, call, data, searchVars>>

\* Lines 57-59: one merge call.
MergeStep ==
    /\ pc = "merge"
    /\ i <= Len(MergeCalls)
    /\ LET m == merge(ds, MergeCalls[i][1], MergeCalls[i][2])
       IN  /\ _leader' = m.ds.leader
           /\ _group' = m.ds.group
           /\ IF m.exc = "none"
              THEN i' = i + 1 /\ UNCHANGED <<pc, exc>>
              ELSE Raise(m.exc) /\ UNCHANGED i
    /\ UNCHANGED <<call, data, searchVars>>

\* Line 60.
Groups ==
    /\ pc = "merge"
    /\ i > Len(MergeCalls)
    /\ LET g == groups_of(ds, names)
       IN  IF g.exc = "none"
           THEN /\ groups' = SelectSeq(g.groups, LAMBDA x : Cardinality(x) > 1)
                /\ pc' = "enumerate"
                /\ UNCHANGED exc
           ELSE Raise(g.exc) /\ UNCHANGED groups
    /\ UNCHANGED <<dsVars, call, data, i, all_group_assignments, symbolic_C, big,
                   C, inf, best, best_cost, cost, result>>

\* Lines 66-70.
Enumerate ==
    /\ pc = "enumerate"
    /\ all_group_assignments' = AllGroupAssignments(Len(groups), Len(data.race.groups))
    /\ pc' = "costs"
    /\ UNCHANGED <<dsVars, exc, call, data, i, groups, symbolic_C, big, C, inf,
                   best, best_cost, cost, result>>

\* Lines 80-91.
Costs ==
    /\ pc = "costs"
    /\ IF RankingMissing
       THEN Raise("ValueError") /\ UNCHANGED symbolic_C
       ELSE symbolic_C' = SymbolicC /\ pc' = "encode" /\ UNCHANGED exc
    /\ UNCHANGED <<dsVars, call, data, i, groups, all_group_assignments, big, C,
                   inf, best, best_cost, cost, result>>

\* Lines 95-107.
EncodeCosts ==
    /\ pc = "encode"
    /\ big' = Big(2 * N * MaxTime(symbolic_C))
    /\ C' = Encode(symbolic_C, big')
    /\ inf' = Inf(big')
    /\ best' = None
    /\ best_cost' = inf'
    /\ i' = 1
    /\ pc' = "scan"
    /\ UNCHANGED <<dsVars, exc, call, data, groups, all_group_assignments,
                   symbolic_C, cost, result>>

\* Lines 108-121: one candidate mapping.
Scan ==
    /\ pc = "scan"
    /\ i <= Len(all_group_assignments)
    /\ \E C_masked \in {Masked(all_group_assignments[i])} :
           \E col_ind \in linear_sum_assignment(C_masked) :
              /\ cost' = Total(C_masked, col_ind)
              /\ IF Replaces(cost', inf, best_cost)
                 THEN best_cost' = cost' /\ best' = BestList(col_ind)
                 ELSE UNCHANGED <<best, best_cost>>
    /\ i' = i + 1
    /\ UNCHANGED <<dsVars, exc, call, data, pc, groups, all_group_assignments,
                   symbolic_C, big, C, inf, result>>

\* Line 123.
Return ==
    /\ pc = "scan"
    /\ i > Len(all_group_assignments)
    /\ result' = best
    /\ pc' = "done"
    /\ UNCHANGED <<dsVars, exc, call, data, i, groups, all_group_assignments,
                   symbolic_C, big, C, inf, best, best_cost, cost>>

Next ==
    \/ AddRunner
    \/ MergeStep
    \/ Groups
    \/ Enumerate
    \/ Costs
    \/ EncodeCosts
    \/ Scan
    \/ Return

Spec == Init /\ [][Next]_vars

\* --------------------------------------------- DisjointSet on its own

Elems == Range(RunnerNames)

NoData == [groups |-> <<>>, runners |-> <<>>, race |-> [legs |-> <<>>, groups |-> <<>>]]

InitDS ==
    /\ _leader = DisjointSet.leader /\ _group = DisjointSet.group
    /\ data = NoData
    /\ pc = "ds"
    /\ Idle

DSAdd(elem) ==
    /\ pc = "ds"
    /\ LET d == add(ds, elem)
       IN  /\ _leader' = d.leader
           /\ _group' = d.group
    /\ exc' = "none"
    /\ call' = <<"add", elem, elem>>
    /\ UNCHANGED <<data, pc, i, searchVars>>

DSMerge(a, b) ==
    /\ pc = "ds"
    /\ LET m == merge(ds, a, b)
       IN  /\ _leader' = m.ds.leader
           /\ _group' = m.ds.group
           /\ exc' = m.exc
    /\ call' = <<"merge", a, b>>
    /\ UNCHANGED <<data, pc, i, searchVars>>

NextDS ==
    \/ \E elem \in Elems : DSAdd(elem)
    \/ \E a, b \in Elems : DSMerge(a, b)

SpecDS == InitDS /\ [][NextDS]_vars

\* ------------------------------------------------------ reference notions

L == Len(data.race.legs)

\* Two runners are linked when some input constraint group names both.
Linked(a, b) == \E g \in Range(data.groups) : a \in Range(g) /\ b \in Range(g)

RECURSIVE Closure(_)
Closure(S) ==
    LET T == S \cup {b \in Range(names) : \E a \in S : Linked(a, b)}
    IN  IF T = S THEN S ELSE Closure(T)

\* The connected components of the runners under the input groups.
Components == {Closure({a}) : a \in Range(names)}

\* The 1-based leg a list of names by leg gives runner m.
LegOf(res, m) == CHOOSE c \in DOMAIN res : res[c] = m

\* A list of names by leg keeps every merged group inside one race-group.
KeepsGroups(res) ==
    \A g \in Components :
        Cardinality(g) > 1 =>
            \E j \in DOMAIN data.race.groups :
                \A m \in g : LegOf(res, m) \in data.race.groups[j]

Returned == pc = "done" /\ exc = "none"

\* -------------------------------------------------------------- properties

\* C1: once every runner is added and every group's members are merged with
\* the group's first member, groups() returns exactly the connected components
\* of the runners under the input groups.
C1_GroupsAreComponents ==
    pc \notin {"add", "merge"} =>
        LET g == groups_of(ds, names)
        IN  g.exc = "none" /\ Range(g.groups) = Components

\* C2: in a returned assignment every merged group of more than one runner
\* has all its members' legs inside the leg set of one race-group.
C2_GroupIntegrity ==
    (Returned /\ result # None) => KeepsGroups(result)

\* C2 witness: an assignment is returned for a merged group that is not the
\* whole team, where some minimum of the unmasked costs would split the group.
C2_Witness ==
    /\ Returned /\ result # None
    /\ \E g \in Components : Cardinality(g) > 1 /\ Cardinality(g) < N
    /\ \E p \in linear_sum_assignment(C) : ~KeepsGroups(BestList(p))

\* The rank and time totals of a runner-to-leg mapping q (runner r runs q[r]).
SymTotal(q) ==
    LET RECURSIVE S(_)
        S(r) == IF r = 0 THEN <<0, 0>>
                ELSE LET t == S(r - 1)
                     IN  <<t[1] + rank(r, q[r]), t[2] + time(r, q[r])>>
    IN  S(N)

LexLE(s, t) == s[1] < t[1] \/ (s[1] = t[1] /\ s[2] <= t[2])

\* The names by leg of a runner-to-leg mapping.
ByLeg(q) == [c \in 1..N |-> names[CHOOSE r \in 1..N : q[r] = c]]

\* The runner-to-leg bijections that keep every merged group inside one
\* race-group; there is none unless the runners and legs are as many.
FeasibleBijections ==
    IF N # L THEN {} ELSE {q \in Perms(N) : KeepsGroups(ByLeg(q))}

\* C3: a returned assignment's (sum of ranks, sum of times) is
\* lexicographically no more than that of any feasible bijection, and when a
\* feasible bijection exists the outcome is an assignment.
C3_Optimal ==
    pc = "done" =>
        /\ (Returned /\ result # None /\ N = L) =>
               \A q \in FeasibleBijections :
                   LexLE(SymTotal([r \in 1..N |-> LegOf(result, names[r])]), SymTotal(q))
        /\ FeasibleBijections # {} => (Returned /\ result # None)

\* C4: with as many legs as runners, a returned assignment has one entry per
\* leg and names every runner exactly once.
C4_Bijection ==
    (Returned /\ result # None /\ N = L) =>
        /\ Len(result) = N
        /\ \A r \in 1..N : Cardinality({c \in DOMAIN result : result[c] = names[r]}) = 1

\* C4 witness: an assignment of three or more runners is returned.
C4_Witness == Returned /\ result # None /\ N = L /\ N >= 3

\* Some merged group (of more than one runner: a lone runner is unconstrained)
\* has more members than any race-group has legs.
Oversized ==
    \E g \in Components :
        /\ Cardinality(g) > 1
        /\ \A j \in DOMAIN data.race.groups :
              Cardinality(g) > Cardinality(data.race.groups[j])

\* C5: with as many legs as runners, when a merged group is larger than every
\* race-group the call returns None: no assignment and no exception.
C5_InfeasibleReturnsNone ==
    (pc = "done" /\ N = L /\ Oversized) => (exc = "none" /\ result = None)

\* C6: with a runner count other than the leg count the call refuses to run:
\* whatever else it does, it returns no assignment.
C6_CountMismatchRefused ==
    (pc = "done" /\ N # L) => ~(exc = "none" /\ result # None)

\* What line 95 scales: 2 * N * max_time.
Scaled == 2 * N * MaxTime(symbolic_C)

IsPow10(x) == \E e \in 0..9 : Pow10(e) = x

MinTotal(k) ==
    CHOOSE t \in {Total(M, CHOOSE p \in linear_sum_assignment(M) : TRUE) :
                     M \in {Masked(all_group_assignments[k])}} : TRUE

\* The assignments the solver may produce for candidate k.
Produced(k) ==
    {BestList(p) : p \in linear_sum_assignment(Masked(all_group_assignments[k]))}

\* The least totals of all candidates, in enumeration order.
MinTotals == [k \in DOMAIN all_group_assignments |-> MinTotal(k)]

\* The first candidate, in enumeration order, that reaches the least feasible
\* total among the totals mt; 0 when no candidate is feasible.
FirstBest(mt) ==
    LET feasible == {k \in DOMAIN mt : mt[k] < inf}
    IN  IF feasible = {} THEN 0
        ELSE CHOOSE k \in feasible :
                \A j \in feasible : mt[k] < mt[j] \/ (mt[k] = mt[j] /\ k <= j)

\* The value returned is None when no candidate is feasible, and otherwise an
\* assignment the first candidate of least feasible total produced.
FirstWins ==
    \E mt \in {MinTotals} :
        \E first \in {FirstBest(mt)} :
            IF first = 0 THEN result = None
            ELSE result \in Produced(first) /\ best_cost = mt[first]

\* C9: during the scan best and best_cost change only for a candidate whose
\* total is below inf and strictly below best_cost, so best_cost never grows;
\* and the assignment returned is one the first candidate of least feasible
\* total produced.
C9_FirstMinimumWins ==
    /\ [][pc = "scan" =>
            /\ best_cost' <= best_cost
            /\ (best' # best \/ best_cost' # best_cost) =>
                   (cost' < inf /\ cost' < best_cost /\ best_cost' = cost')]_vars
    /\ [](Returned => FirstWins)

\* C9 witness: a later candidate has just reached the total of the best so
\* far, with assignments other than the one kept, and the one kept stayed.
C9_Witness ==
    /\ pc = "scan" /\ i > 2
    /\ best # None
    /\ cost = best_cost
    /\ best \notin Produced(i - 1)

\* C8: merge(a, b) with a or b never added raises, and leaves _leader and
\* _group as they were.
C8_MergeUnknownFails ==
    [][(pc = "ds" /\ call'[1] = "merge"
          /\ (call'[2] \notin DOMAIN _leader \/ call'[3] \notin DOMAIN _leader))
       => (exc' # "none" /\ _leader' = _leader /\ _group' = _group)]_vars

\* C8 witness: a merge naming an element never added has just failed on a
\* set that holds other elements.
C8_Witness ==
    /\ pc = "ds" /\ call[1] = "merge"
    /\ (call[2] \notin DOMAIN _leader \/ call[3] \notin DOMAIN _leader)
    /\ exc = "KeyError"
    /\ DOMAIN _leader # {}

\* C10: every added element's leader is a key of _group and its group holds
\* the element, the keys of _group are the elements that lead themselves, and
\* the groups are disjoint and cover the added elements.
C10_Consistent ==
    /\ \A e \in DOMAIN _leader :
          _leader[e] \in DOMAIN _group /\ e \in _group[_leader[e]]
    /\ DOMAIN _group = {e \in DOMAIN _leader : _leader[e] = e}
    /\ \A x, y \in DOMAIN _group : (x # y) => (_group[x] \cap _group[y] = {})
    /\ UNION {_group[x] : x \in DOMAIN _group} = DOMAIN _leader

====
